---- MODULE Spec2Model ----
(***************************************************************************)
(* Model of impots.py: the progressive income-tax calculation              *)
(* (calculer_impot over TRANCHES_IMPOSITION) and the session around it     *)
(* (monthly arrays, exceptional incomes, balance and its display).         *)
(*                                                                         *)
(* Amounts are exact rationals [n |-> numerator, d |-> denominator], kept  *)
(* in lowest terms with d > 0; the decimal literals of the source (0.11,   *)
(* 0.90, ...) are the decimals they denote.  +infinity is [n |-> 1,        *)
(* d |-> 0].  The source computes in binary floating point; the model      *)
(* computes the same expressions, in the same order, without rounding.     *)
(***************************************************************************)
EXTENDS Integers, Sequences, FiniteSets, TLC

VARIABLES
    \* --- two independent calls of calculer_impot (specification SpecCalc)
    revenu_a, parts_a, resultat_a,
    revenu_b, parts_b, resultat_b,
    \* --- the session (specification Spec)
    revenus_mensuels, impots_mensuels, revenus_exceptionnels,
    nb_parts, nouveau_montant,
    resultat_impot, solde_impot, affichage,
    evenement, nb_evenements

calc_vars == <<revenu_a, parts_a, resultat_a, revenu_b, parts_b, resultat_b>>
session_vars == <<revenus_mensuels, impots_mensuels, revenus_exceptionnels,
                  nb_parts, nouveau_montant, resultat_impot, solde_impot,
                  affichage, evenement, nb_evenements>>
vars == <<calc_vars, session_vars>>

(***************************************************************************)
(* Exact arithmetic                                                        *)
(***************************************************************************)
Abs(x) == IF x < 0 THEN -x ELSE x

RECURSIVE GCD(_, _)
GCD(a, b) == IF b = 0 THEN a ELSE GCD(b, a % b)

Norm(n, d) ==
    LET g == GCD(Abs(n), Abs(d))
        s == IF d < 0 THEN -1 ELSE 1
    IN  [n |-> (s * n) \div g, d |-> (s * d) \div g]

Nombre(k) == [n |-> k, d |-> 1]
Zero == Nombre(0)
Inf == [n |-> 1, d |-> 0]

LCM(a, b) == (a \div GCD(a, b)) * b

\* a + b
RAdd(a, b) ==
    LET l == LCM(a.d, b.d)
    IN  Norm(a.n * (l \div a.d) + b.n * (l \div b.d), l)

\* a - b
RSub(a, b) == RAdd(a, [n |-> -b.n, d |-> b.d])

\* a * b, cross-reduced before multiplying
RMul(a, b) ==
    LET g1 == GCD(Abs(a.n), b.d)
        g2 == GCD(Abs(b.n), a.d)
    IN  Norm((a.n \div g1) * (b.n \div g2), (a.d \div g2) * (b.d \div g1))

\* a < b ; Inf is above every finite number
RLt(a, b) ==
    IF a = Inf THEN FALSE
    ELSE IF b = Inf THEN TRUE
    ELSE LET l == LCM(a.d, b.d)
         IN  a.n * (l \div a.d) < b.n * (l \div b.d)

RGt(a, b) == RLt(b, a)
RLe(a, b) == ~RLt(b, a)

\* Python's min(a, b): b only when b < a
RMin(a, b) == IF RLt(b, a) THEN b ELSE a

(***************************************************************************)
(* BAREME D'IMPOSITION 2024                                                *)
(***************************************************************************)
TRANCHES_IMPOSITION ==
    << [min |-> Nombre(0),      max |-> Nombre(11294),  taux |-> Norm(0, 100),  label |-> "0%"],
       [min |-> Nombre(11294),  max |-> Nombre(28797),  taux |-> Norm(11, 100), label |-> "11%"],
       [min |-> Nombre(28797),  max |-> Nombre(82341),  taux |-> Norm(30, 100), label |-> "30%"],
       [min |-> Nombre(82341),  max |-> Nombre(177106), taux |-> Norm(41, 100), label |-> "41%"],
       [min |-> Nombre(177106), max |-> Inf,            taux |-> Norm(45, 100), label |-> "45%"] >>

(***************************************************************************)
(* calculer_impot                                                          *)
(***************************************************************************)
ZeroDivisionError == "ZeroDivisionError"
Aucune == "aucune"

\* Mutant: a zero divisor yields a quotient of 0 instead of raising.
Division_zero_silencieux(a, b) ==
    IF b.n = 0 THEN [exception |-> Aucune, valeur |-> Zero]
    ELSE [exception |-> Aucune, valeur |-> RMul(a, Norm(b.d, b.n))]

\* Python's a / b on numbers: raises ZeroDivisionError when b is 0.
Division(a, b) ==
    IF b.n = 0 THEN [exception |-> ZeroDivisionError]
    ELSE [exception |-> Aucune, valeur |-> RMul(a, Norm(b.d, b.n))]

\* Mutant: the income is not divided by the number of parts.
quotient_sans_division(revenu_imposable, parts) ==
    IF parts.n = 0 THEN [exception |-> ZeroDivisionError]
    ELSE [exception |-> Aucune, valeur |-> revenu_imposable]

\* quotient = revenu_imposable / nb_parts
quotient_familial(revenu_imposable, parts) == Division(revenu_imposable, parts)

\* Mutant: >= instead of >.
tranche_atteinte_ou_egal(quotient, tranche) == RLe(tranche.min, quotient)

\* Mutant: the test is dropped, every bracket is entered.
tranche_atteinte_toujours(quotient, tranche) == TRUE

\* if quotient > tranche["min"]
tranche_atteinte(quotient, tranche) == RGt(quotient, tranche.min)

\* Mutant: the cap at the bracket's upper bound is forgotten.
base_tranche_sans_plafond(quotient, tranche) == RSub(quotient, tranche.min)

\* base_tranche = min(quotient, tranche["max"]) - tranche["min"]
base_tranche(quotient, tranche) ==
    RSub(RMin(quotient, tranche.max), tranche.min)

\* Mutant: the rate of the bracket is applied to the whole quotient.
impot_tranche_sur_quotient(quotient, base, tranche) == RMul(quotient, tranche.taux)

\* impot_tranche = base_tranche * tranche["taux"]
impot_tranche(quotient, base, tranche) == RMul(base, tranche.taux)

\* Mutant: = instead of +=.
cumul_ecrase(impot_par_part, impot) == impot

\* impot_par_part += impot_tranche
cumul(impot_par_part, impot) == RAdd(impot_par_part, impot)

\* The text of the "tranche" column.
libelle_tranche(tranche) ==
    IF tranche.max # Inf
    THEN [texte |-> "min a max", min |-> tranche.min.n, max |-> tranche.max.n]
    ELSE [texte |-> "Plus de min", min |-> tranche.min.n, max |-> tranche.min.n]

\* The loop over TRANCHES_IMPOSITION, from bracket i on.
RECURSIVE boucle_tranches(_, _, _, _)
boucle_tranches(i, quotient, impot_par_part, detail_tranches) ==
    IF i > Len(TRANCHES_IMPOSITION)
    THEN [impot_par_part |-> impot_par_part, detail_tranches |-> detail_tranches]
    ELSE LET tranche == TRANCHES_IMPOSITION[i] IN
         IF tranche_atteinte(quotient, tranche)
         THEN LET base == base_tranche(quotient, tranche)
                  impot == impot_tranche(quotient, base, tranche)
              IN  boucle_tranches(i + 1, quotient, cumul(impot_par_part, impot),
                      Append(detail_tranches,
                             [tranche |-> libelle_tranche(tranche),
                              taux |-> tranche.label,
                              base |-> base,
                              impot |-> impot]))
         ELSE boucle_tranches(i + 1, quotient, impot_par_part, detail_tranches)

\* impot_total = impot_par_part * nb_parts
impot_total(impot_par_part, parts) == RMul(impot_par_part, parts)

calculer_impot(revenu_imposable, parts) ==
    LET q == quotient_familial(revenu_imposable, parts) IN
    IF q.exception # Aucune
    THEN [exception |-> q.exception]
    ELSE LET b == boucle_tranches(1, q.valeur, Zero, << >>)
         IN  [exception |-> Aucune,
              impot_total |-> impot_total(b.impot_par_part, parts),
              impot_par_part |-> b.impot_par_part,
              quotient |-> q.valeur,
              detail_tranches |-> b.detail_tranches]

(***************************************************************************)
(* Session: widgets, session state and the calculations of one script run  *)
(***************************************************************************)
NB_MOIS == 12

\* [0.0] * 12
douze_zeros == [i \in 1..NB_MOIS |-> Zero]

\* The "Nombre de parts fiscales" widget.
NB_PARTS_WIDGET ==
    [min_value |-> Nombre(1), max_value |-> Nombre(10),
     value |-> Nombre(1), step |-> Norm(1, 2)]

\* st.number_input(min_value=...): what the user typed, never below min_value.
number_input(min_value, saisie) ==
    IF RLt(saisie, min_value) THEN min_value ELSE saisie

\* st.number_input(min_value=..., max_value=...)
number_input_borne(min_value, max_value, saisie) ==
    IF RLt(saisie, min_value) THEN min_value
    ELSE IF RGt(saisie, max_value) THEN max_value
    ELSE saisie

\* Python's sum(): 0 + s[1] + s[2] + ...
RECURSIVE sum_depuis(_, _, _)
sum_depuis(s, i, acc) ==
    IF i > Len(s) THEN acc ELSE sum_depuis(s, i + 1, RAdd(acc, s[i]))

sum(s) == sum_depuis(s, 1, Zero)

\* revenu_avec_abattement = total_revenus_net * 0.90
revenu_avec_abattement(total_revenus_net) ==
    RMul(total_revenus_net, Norm(90, 100))

\* Mutant: the subtraction is the wrong way round.
solde_inverse(resultat, total_impots_payes) ==
    RSub(total_impots_payes, resultat.impot_total)

\* solde_impot = resultat_impot["impot_total"] - total_impots_payes
solde(resultat, total_impots_payes) ==
    RSub(resultat.impot_total, total_impots_payes)

\* Which metric the third column of "Bilan des Prelevements" shows.
bilan(s) ==
    IF RGt(s, Zero) THEN "Reste a payer"
    ELSE IF RLt(s, Zero) THEN "Remboursement"
    ELSE "Solde"

\* total_revenus_net = total_revenus_mensuels + total_revenus_exceptionnels
total_revenus_net(rm, re) == RAdd(sum(rm), sum(re))

\* resultat_impot = calculer_impot(revenu_avec_abattement, nb_parts)
calculs(rm, re, parts) ==
    calculer_impot(revenu_avec_abattement(total_revenus_net(rm, re)), parts)

\* The run of the script that ends an interaction: sections 4 and 5, on the
\* session state the interaction leaves.
Rendu ==
    /\ resultat_impot' = calculs(revenus_mensuels', revenus_exceptionnels', nb_parts')
    /\ solde_impot' = solde(resultat_impot', sum(impots_mensuels'))
    /\ affichage' = bilan(solde_impot')

\* list.pop(idx), idx counted from 1 here
pop(s, idx) == SubSeq(s, 1, idx - 1) \o SubSeq(s, idx + 1, Len(s))

\* Mutant: zero and negative amounts are appended too.
ajout_accepte_toujours(montant) == TRUE

\* if nouveau_montant > 0
ajout_accepte(montant) == RGt(montant, Zero)

\* reinitialiser(): the three session values it assigns
reinitialiser ==
    [revenus_mensuels |-> douze_zeros,
     impots_mensuels |-> douze_zeros,
     revenus_exceptionnels |-> << >>]

(***************************************************************************)
(* Inputs                                                                  *)
(***************************************************************************)
PasRevenu == 9973
MaxPasRevenu == 40
MaxEvenements == 5

\* Bracket bounds and their doubles, and the incomes of the documented scenarios.
RevenusReperes ==
    {TRANCHES_IMPOSITION[i].max.n * k : i \in 1..(Len(TRANCHES_IMPOSITION) - 1), k \in 1..2}
    \cup {30000, 21600, 1}

RevenusValides ==
    {Nombre(PasRevenu * k) : k \in 0..MaxPasRevenu} \cup {Nombre(r) : r \in RevenusReperes}
    \cup {Norm(2160050, 100)}
    \cup {RMul(TRANCHES_IMPOSITION[i].max, Norm(3, 2)) : i \in 1..(Len(TRANCHES_IMPOSITION) - 1)}

RevenusHorsDomaine == {Nombre(-30000), Nombre(-1)}

\* Every value the parts widget can step to, and two values off its grid.
PartsWidget ==
    {p \in {RAdd(NB_PARTS_WIDGET.min_value, RMul(Nombre(k), NB_PARTS_WIDGET.step)) : k \in 0..40} :
        RLe(p, NB_PARTS_WIDGET.max_value)}

PartsValides == PartsWidget \cup {Norm(4, 3), Norm(7, 3)}

PartsHorsDomaine == {Nombre(0), Nombre(-1), Norm(-3, 2), Norm(1, 2)}

EstRevenuValide(r) == RLe(Zero, r)
EstPartsValides(p) == RLe(Nombre(1), p)

\* What a user may type in the widgets of the session.
SaisiesRevenu == {Nombre(-500), Nombre(12000), Nombre(24000)}
\* The months whose widgets the user edits: the first and the last.
MoisSaisis == {1, NB_MOIS}
SaisiesImpot == {Nombre(-10), Nombre(1000)}
SaisiesMontant == {Nombre(-5), Zero, Nombre(3000), Nombre(50000)}
SaisiesParts == {Zero, Nombre(1), Norm(3, 2), Nombre(2), Nombre(12)}

NonCalcule == [exception |-> "non calcule"]

(***************************************************************************)
(* Initial states                                                          *)
(***************************************************************************)
\* initialiser_session_state() on a fresh session, then the first script run.
InitSession ==
    /\ revenus_mensuels = douze_zeros
    /\ impots_mensuels = douze_zeros
    /\ revenus_exceptionnels = << >>
    /\ nb_parts = NB_PARTS_WIDGET.value
    /\ nouveau_montant = Zero
    /\ resultat_impot = calculs(revenus_mensuels, revenus_exceptionnels, nb_parts)
    /\ solde_impot = solde(resultat_impot, sum(impots_mensuels))
    /\ affichage = bilan(solde_impot)
    /\ evenement = [type |-> "demarrage", idx |-> 0]
    /\ nb_evenements = 0

\* Two calls about to be made: same parts or same income.
InitAppels ==
    /\ revenu_a \in RevenusValides \cup RevenusHorsDomaine
    /\ revenu_b \in RevenusValides \cup RevenusHorsDomaine
    /\ parts_a \in PartsValides \cup PartsHorsDomaine
    /\ parts_b \in PartsValides \cup PartsHorsDomaine
    /\ (parts_a = parts_b \/ revenu_a = revenu_b)
    /\ resultat_a = NonCalcule
    /\ resultat_b = NonCalcule

AucunAppel ==
    /\ revenu_a = Zero /\ parts_a = Nombre(1) /\ resultat_a = NonCalcule
    /\ revenu_b = Zero /\ parts_b = Nombre(1) /\ resultat_b = NonCalcule

Init == InitSession /\ AucunAppel
InitCalc == InitSession /\ InitAppels

(***************************************************************************)
(* The calls of calculer_impot                                             *)
(***************************************************************************)
AppelA ==
    /\ resultat_a = NonCalcule
    /\ resultat_a' = calculer_impot(revenu_a, parts_a)
    /\ UNCHANGED <<revenu_a, parts_a, revenu_b, parts_b, resultat_b>>
    /\ UNCHANGED session_vars

AppelB ==
    /\ resultat_b = NonCalcule
    /\ resultat_b' = calculer_impot(revenu_b, parts_b)
    /\ UNCHANGED <<revenu_a, parts_a, revenu_b, parts_b, resultat_a>>
    /\ UNCHANGED session_vars

(***************************************************************************)
(* The interactions of the session; each ends with a run of the script     *)
(***************************************************************************)
Compte(type, idx) ==
    /\ nb_evenements < MaxEvenements
    /\ nb_evenements' = nb_evenements + 1
    /\ evenement' = [type |-> type, idx |-> idx]

SaisirRevenu ==
    \E i \in MoisSaisis, saisie \in SaisiesRevenu :
        /\ Compte("revenu", i)
        /\ revenus_mensuels' =
              [revenus_mensuels EXCEPT ![i] = number_input(Zero, saisie)]
        /\ UNCHANGED <<impots_mensuels, revenus_exceptionnels, nb_parts, nouveau_montant>>
        /\ Rendu
        /\ UNCHANGED calc_vars

SaisirImpot ==
    \E i \in MoisSaisis, saisie \in SaisiesImpot :
        /\ Compte("impot", i)
        /\ impots_mensuels' =
              [impots_mensuels EXCEPT ![i] = number_input(Zero, saisie)]
        /\ UNCHANGED <<revenus_mensuels, revenus_exceptionnels, nb_parts, nouveau_montant>>
        /\ Rendu
        /\ UNCHANGED calc_vars

SaisirParts ==
    \E saisie \in SaisiesParts :
        /\ Compte("parts", 0)
        /\ nb_parts' = number_input_borne(NB_PARTS_WIDGET.min_value,
                                          NB_PARTS_WIDGET.max_value, saisie)
        /\ UNCHANGED <<revenus_mensuels, impots_mensuels, revenus_exceptionnels, nouveau_montant>>
        /\ Rendu
        /\ UNCHANGED calc_vars

SaisirMontant ==
    \E saisie \in SaisiesMontant :
        /\ Compte("montant", 0)
        /\ nouveau_montant' = number_input(Zero, saisie)
        /\ UNCHANGED <<revenus_mensuels, impots_mensuels, revenus_exceptionnels, nb_parts>>
        /\ Rendu
        /\ UNCHANGED calc_vars

\* The "Ajouter" button.
Ajouter ==
    /\ Compte("ajouter", 0)
    /\ revenus_exceptionnels' =
          IF ajout_accepte(nouveau_montant)
          THEN Append(revenus_exceptionnels, nouveau_montant)
          ELSE revenus_exceptionnels
    /\ UNCHANGED <<revenus_mensuels, impots_mensuels, nb_parts, nouveau_montant>>
    /\ Rendu
    /\ UNCHANGED calc_vars

\* The delete button of line #idx.
Supprimer ==
    \E idx \in 1..Len(revenus_exceptionnels) :
        /\ Compte("supprimer", idx)
        /\ revenus_exceptionnels' = pop(revenus_exceptionnels, idx)
        /\ UNCHANGED <<revenus_mensuels, impots_mensuels, nb_parts, nouveau_montant>>
        /\ Rendu
        /\ UNCHANGED calc_vars

\* The "Reinitialiser" button.
Reinitialiser ==
    /\ Compte("reinitialiser", 0)
    /\ revenus_mensuels' = reinitialiser.revenus_mensuels
    /\ impots_mensuels' = reinitialiser.impots_mensuels
    /\ revenus_exceptionnels' = reinitialiser.revenus_exceptionnels
    /\ UNCHANGED <<nb_parts, nouveau_montant>>
    /\ Rendu
    /\ UNCHANGED calc_vars

Next ==
    \/ SaisirRevenu
    \/ SaisirImpot
    \/ SaisirParts
    \/ SaisirMontant
    \/ Ajouter
    \/ Supprimer
    \/ Reinitialiser

NextCalc ==
    \/ AppelA
    \/ AppelB

Spec == Init /\ [][Next]_vars
SpecCalc == InitCalc /\ [][NextCalc]_vars

(***************************************************************************)
(* Properties of calculer_impot (specification SpecCalc)                   *)
(***************************************************************************)
FiniA == resultat_a # NonCalcule
FiniB == resultat_b # NonCalcule
ValideA == EstRevenuValide(revenu_a) /\ EstPartsValides(parts_a)
ValideB == EstRevenuValide(revenu_b) /\ EstPartsValides(parts_b)

\* The results of the calls made so far on inputs in the documented domain.
ResultatsValides ==
    {x \in {[revenu |-> revenu_a, parts |-> parts_a, res |-> resultat_a],
            [revenu |-> revenu_b, parts |-> parts_b, res |-> resultat_b]} :
        /\ x.res # NonCalcule
        /\ EstRevenuValide(x.revenu)
        /\ EstPartsValides(x.parts)}

\* The results of the calls made so far, whatever the inputs.
Resultats ==
    {x \in {[revenu |-> revenu_a, parts |-> parts_a, res |-> resultat_a],
            [revenu |-> revenu_b, parts |-> parts_b, res |-> resultat_b]} :
        x.res # NonCalcule}

Bases(res) == [i \in 1..Len(res.detail_tranches) |-> res.detail_tranches[i].base]
Impots(res) == [i \in 1..Len(res.detail_tranches) |-> res.detail_tranches[i].impot]

\* C1: for fixed parts >= 1 and incomes 0 <= a <= b, the total tax of a is at
\* most the total tax of b.
C1_MonotoneEnRevenu ==
    (FiniA /\ FiniB /\ ValideA /\ ValideB /\ parts_a = parts_b /\ RLe(revenu_a, revenu_b))
        => RLe(resultat_a.impot_total, resultat_b.impot_total)

C1_Temoin ==
    /\ FiniA /\ FiniB /\ ValideA /\ ValideB
    /\ parts_a = parts_b /\ parts_a = Norm(3, 2)
    /\ RLt(revenu_a, revenu_b)
    /\ RLt(Zero, resultat_a.impot_total)
    /\ RLt(resultat_a.impot_total, resultat_b.impot_total)
    /\ Len(resultat_b.detail_tranches) > Len(resultat_a.detail_tranches)

\* C2: for a fixed income >= 0 and parts 1 <= n <= m, the total tax with m
\* parts is at most the total tax with n parts.
C2_DecroissantEnParts ==
    (FiniA /\ FiniB /\ ValideA /\ ValideB /\ revenu_a = revenu_b /\ RLe(parts_a, parts_b))
        => RLe(resultat_b.impot_total, resultat_a.impot_total)

C2_Temoin ==
    /\ FiniA /\ FiniB /\ ValideA /\ ValideB
    /\ revenu_a = revenu_b
    /\ parts_a = Norm(5, 2) /\ parts_b = NB_PARTS_WIDGET.max_value
    /\ RLt(Zero, resultat_b.impot_total)
    /\ RLt(resultat_b.impot_total, resultat_a.impot_total)

\* C3: on valid inputs the bases of the line items add up to the quotient.
C3_SommeDesBases ==
    \A x \in ResultatsValides : sum(Bases(x.res)) = x.res.quotient

C3_Temoin ==
    \E x \in ResultatsValides :
        /\ Len(x.res.detail_tranches) = Len(TRANCHES_IMPOSITION)
        /\ x.res.quotient.d > 1
        /\ sum(Bases(x.res)) = x.res.quotient

\* C4: a quotient equal to the upper bound of bracket i is taxed up to and
\* including bracket i only, whose base is max - min; 164682 with 2 parts has
\* quotient 82341, three line items and the base 82341 - 28797 in the third.
C4_BorneSuperieure ==
    \A x \in ResultatsValides :
        /\ \A i \in 1..Len(TRANCHES_IMPOSITION) :
              x.res.quotient = TRANCHES_IMPOSITION[i].max =>
                 /\ Len(x.res.detail_tranches) = i
                 /\ x.res.detail_tranches[i].base =
                       RSub(TRANCHES_IMPOSITION[i].max, TRANCHES_IMPOSITION[i].min)
                 /\ x.res.detail_tranches[i].taux = TRANCHES_IMPOSITION[i].label
                 /\ x.res.impot_par_part = sum(Impots(x.res))
        /\ (x.revenu = Nombre(164682) /\ x.parts = Nombre(2)) =>
              /\ x.res.quotient = Nombre(82341)
              /\ Len(x.res.detail_tranches) = 3
              /\ x.res.detail_tranches[3].base = Nombre(82341 - 28797)

C4_Temoin ==
    /\ FiniA /\ revenu_a = Nombre(164682) /\ parts_a = Nombre(2)
    /\ resultat_a.quotient = TRANCHES_IMPOSITION[3].max
    /\ Len(resultat_a.detail_tranches) = 3
    /\ FiniB /\ ValideB /\ parts_b = Nombre(2)
    /\ resultat_b.quotient = TRANCHES_IMPOSITION[2].max

\* C5: an income of 0 gives total 0, tax per part 0, quotient 0 and no line
\* item; every line item is of a bracket whose lower bound is below the quotient.
C5_RevenuNul ==
    \A x \in ResultatsValides :
        /\ x.revenu = Zero =>
              /\ x.res.impot_total = Zero
              /\ x.res.impot_par_part = Zero
              /\ x.res.quotient = Zero
              /\ x.res.detail_tranches = << >>
        /\ \A j \in 1..Len(x.res.detail_tranches) :
              RGt(x.res.quotient, Nombre(x.res.detail_tranches[j].tranche.min))

C5_Temoin ==
    /\ FiniA /\ FiniB
    /\ revenu_a = Zero /\ parts_a = Norm(3, 2) /\ resultat_a.detail_tranches = << >>
    /\ ValideB /\ Len(resultat_b.detail_tranches) = 2

\* C6: on valid inputs the total tax, every base and every tax of a line item
\* are >= 0.
C6_NonNegatif ==
    \A x \in ResultatsValides :
        /\ RLe(Zero, x.res.impot_total)
        /\ \A j \in 1..Len(x.res.detail_tranches) :
              /\ RLe(Zero, x.res.detail_tranches[j].base)
              /\ RLe(Zero, x.res.detail_tranches[j].impot)

C6_Temoin ==
    \E x \in ResultatsValides :
        /\ x.parts = Norm(7, 3)
        /\ RLt(Zero, x.res.impot_total)
        /\ Len(x.res.detail_tranches) = 4

\* C7 as stated: no call ever raises, out-of-range inputs included.
C7_JamaisDErreur ==
    \A x \in Resultats : x.res.exception = Aucune

\* C7, amended: a call raises exactly when the number of parts is 0, and then
\* ZeroDivisionError; every other call, negative income or negative parts
\* included, returns a result whose quotient is income / parts, and that
\* result has no line item and a total of 0 when the quotient is <= 0.
C7_ErreurSeulementParDivisionParZero ==
    \A x \in Resultats :
        /\ x.parts.n = 0 => x.res = [exception |-> ZeroDivisionError]
        /\ x.parts.n # 0 =>
              /\ x.res.exception = Aucune
              /\ RMul(x.res.quotient, x.parts) = x.revenu
              /\ RLe(x.res.quotient, Zero) =>
                    /\ x.res.detail_tranches = << >>
                    /\ x.res.impot_total = Zero

C7_Temoin ==
    /\ FiniA /\ FiniB
    /\ revenu_a = Nombre(-30000) /\ parts_a = Zero
    /\ resultat_a.exception = ZeroDivisionError
    /\ revenu_b = Nombre(-30000) /\ parts_b = Nombre(-1)
    /\ resultat_b.exception = Aucune
    /\ RLt(resultat_b.impot_total, Zero)

\* The tax per part of quotient q written out from the table, bracket i onward.
RECURSIVE ImpotAttendu(_, _)
ImpotAttendu(q, i) ==
    IF i > Len(TRANCHES_IMPOSITION) THEN Zero
    ELSE LET t == TRANCHES_IMPOSITION[i]
             part == IF RGt(q, t.min)
                     THEN RMul(RSub(IF RLt(q, t.max) THEN q ELSE t.max, t.min), t.taux)
                     ELSE Zero
         IN  RAdd(part, ImpotAttendu(q, i + 1))

\* C9: the tax per part is the sum over the brackets below the quotient of
\* (min(quotient, max) - min) * taux, which is the sum of the line items'
\* taxes, and the total is the tax per part times the parts; 30000 with 1
\* part gives the bases 11294, 17503, 1203 and 2286.23 for both.
C9_QuotientFamilial ==
    \A x \in Resultats :
        x.res.exception = Aucune =>
            /\ x.res.impot_par_part = ImpotAttendu(x.res.quotient, 1)
            /\ x.res.impot_par_part = sum(Impots(x.res))
            /\ x.res.impot_total = RMul(x.res.impot_par_part, x.parts)
            /\ (x.revenu = Nombre(30000) /\ x.parts = Nombre(1)) =>
                  /\ Bases(x.res) = <<Nombre(11294), Nombre(17503), Nombre(1203)>>
                  /\ x.res.impot_par_part = Norm(228623, 100)
                  /\ x.res.impot_total = Norm(228623, 100)

C9_Temoin ==
    /\ FiniA /\ revenu_a = Nombre(30000) /\ parts_a = Nombre(1)
    /\ resultat_a.impot_total = Norm(228623, 100)
    /\ FiniB /\ revenu_b = Nombre(30000) /\ parts_b = Norm(3, 2)
    /\ resultat_b.impot_total = RMul(resultat_b.impot_par_part, parts_b)
    /\ resultat_b.impot_total # resultat_b.impot_par_part

(***************************************************************************)
(* Properties of the session (specification Spec)                          *)
(***************************************************************************)
\* C8: the balance shown is calculer_impot(0.90 * (monthly incomes +
\* exceptional incomes), nb_parts).impot_total minus the withheld amounts, shown
\* as owed when > 0, as a refund when < 0 and as balanced when = 0; monthly
\* incomes of 24000, no exceptional income, 1 part and 1000 withheld give a
\* taxable income of 21600 and a balance of +133.66, owed.
C8_Solde ==
    LET total == RAdd(sum(revenus_mensuels), sum(revenus_exceptionnels))
        imposable == RMul(total, Norm(9, 10))
        q == RMul(imposable, Norm(nb_parts.d, nb_parts.n))
        paye == sum(impots_mensuels)
    IN  /\ resultat_impot.exception = Aucune
        /\ resultat_impot.quotient = q
        /\ resultat_impot.impot_total = RMul(ImpotAttendu(q, 1), nb_parts)
        /\ solde_impot = RSub(resultat_impot.impot_total, paye)
        /\ affichage = "Reste a payer" <=> RGt(solde_impot, Zero)
        /\ affichage = "Remboursement" <=> RLt(solde_impot, Zero)
        /\ affichage = "Solde" <=> solde_impot = Zero
        /\ (/\ sum(revenus_mensuels) = Nombre(24000)
            /\ revenus_exceptionnels = << >>
            /\ nb_parts = Nombre(1)
            /\ paye = Nombre(1000)) =>
               /\ imposable = Nombre(21600)
               /\ solde_impot = Norm(13366, 100)
               /\ affichage = "Reste a payer"

C8_Temoin ==
    /\ revenus_mensuels[1] = Nombre(12000)
    /\ revenus_mensuels[NB_MOIS] = Nombre(12000)
    /\ revenus_exceptionnels = << >>
    /\ nb_parts = Nombre(1)
    /\ sum(impots_mensuels) = Nombre(1000)
    /\ evenement.type = "impot"
    /\ solde_impot = Norm(13366, 100)
    /\ affichage = "Reste a payer"

\* What C10 says of the session state.
C10_Etat ==
    /\ Len(revenus_mensuels) = 12
    /\ Len(impots_mensuels) = 12
    /\ \A i \in 1..12 : RLe(Zero, revenus_mensuels[i]) /\ RLe(Zero, impots_mensuels[i])
    /\ \A j \in 1..Len(revenus_exceptionnels) : RGt(revenus_exceptionnels[j], Zero)

\* What C10 says of one interaction, which evenement' names.
C10_Pas ==
    /\ (evenement'.type = "ajouter" /\ RLe(nouveau_montant, Zero)) =>
          revenus_exceptionnels' = revenus_exceptionnels
    /\ (evenement'.type = "ajouter" /\ RGt(nouveau_montant, Zero)) =>
          revenus_exceptionnels' = revenus_exceptionnels \o <<nouveau_montant>>
    /\ evenement'.type = "supprimer" =>
          /\ Len(revenus_exceptionnels') = Len(revenus_exceptionnels) - 1
          /\ \A j \in 1..Len(revenus_exceptionnels') :
                revenus_exceptionnels'[j] =
                   revenus_exceptionnels[IF j < evenement'.idx THEN j ELSE j + 1]
    /\ evenement'.type = "reinitialiser" =>
          /\ revenus_mensuels' = [i \in 1..12 |-> Zero]
          /\ impots_mensuels' = [i \in 1..12 |-> Zero]
          /\ revenus_exceptionnels' = << >>

\* C10: the two monthly arrays always hold 12 values >= 0 and every
\* exceptional income is > 0; an add with an amount <= 0 changes nothing, a
\* delete removes exactly the element of its index, a reset zeroes both
\* arrays and empties the list.
C10_Session == [](C10_Etat) /\ [][C10_Pas]_vars

C10_Temoin ==
    /\ evenement = [type |-> "supprimer", idx |-> 1]
    /\ revenus_exceptionnels = <<Nombre(50000)>>
    /\ nouveau_montant = Nombre(50000)
    /\ RGt(solde_impot, Zero)

====
